---- MODULE Spec2Model ----
(***************************************************************************)
(* Simulation core of bevy_city_sim (src/src/main.rs): the tile grid, the  *)
(* zone cycle driven by clicks (handle_mouse_input) and the periodic       *)
(* recomputation pass (simulation_step) that updates the per-tile counters *)
(* and the city statistics.                                                *)
(*                                                                         *)
(* The three Update systems of main() are scheduled by the engine once per *)
(* frame; each run of a system is one step of the model.  The engine's     *)
(* inputs to a system (the resolved cursor cell of a fresh left click, and *)
(* whether the repeating timer just finished) are chosen by \E.            *)
(***************************************************************************)
EXTENDS Integers, Sequences, FiniteSets, TLC

\* ------------------------------------------------------------------ bounds
\* The grid of the program is 32 x 32 (main.rs:5-6); the model checks a
\* scaled-down grid that still has corner, edge and interior tiles.
MAP_WIDTH == 3
MAP_HEIGHT == 3
\* Clicks and timer firings explored from the freshly spawned map.
MaxClicks == 3
MaxTicks == 1
\* The saturated runs: a map is built, the timer fires WarmLen times with the
\* player idle, and then MaxClicks clicks and MaxTicks firings are explored.
WarmLen == 100
\* Frames explored by the frame-by-frame runs.
MaxFrames == 4
\* The SimTimer interval, 0.5 s (main.rs:22), in quarter seconds.
SIM_INTERVAL == 2

VARIABLES
    zone,      \* Zone component of every tile, by TileCoord
    data,      \* TileData component of every tile, by TileCoord
    stats,     \* the CityStats resource
    last,      \* history: which system branch ran last
    pre,       \* history: data and stats just before the last recomputation pass
    pressed,   \* history: number of in-grid clicks each tile has received
    targets,   \* the cells the player's clicks may resolve to in this run
    clicks,    \* clicks left to explore
    ticks,     \* timer firings left to explore
    window,    \* the values of ticks at which the player clicks in this run
    timer,     \* SimTimer: elapsed time since it last finished, in quarter seconds
    changed,   \* CityStats was added or written since update_stats_ui last ran
    text,      \* the Text of the StatsText entity
    todo,      \* the Update systems still to run in the current frame
    frames,    \* frames left to explore
    frame,     \* history: the current frame's delta and the state it began in
    ui,        \* history: what the last run of update_stats_ui observed
    passSince  \* history: a pass has run since update_stats_ui last ran

coreVars == <<zone, data, stats, last, pre, pressed, targets, clicks, ticks, window>>
frameVars == <<timer, changed, text, todo, frames, frame, ui, passSince>>
vars == <<zone, data, stats, last, pre, pressed, targets, clicks, ticks, window,
          timer, changed, text, todo, frames, frame, ui, passSince>>

\* ------------------------------------------------------------------- types
Zone == {"Empty", "Road", "Residential", "Commercial", "Industrial"}

\* TileCoord values of the tiles spawn_map creates.
Coords == (0 .. MAP_WIDTH - 1) \X (0 .. MAP_HEIGHT - 1)

\* The cells a click can resolve to: the grid and the ring of cells around it.
Cells == (-1 .. MAP_WIDTH) \X (-1 .. MAP_HEIGHT)

\* spawn_map: for y in 0..MAP_HEIGHT { for x in 0..MAP_WIDTH { spawn } }
SpawnOrder ==
    [i \in 1 .. MAP_WIDTH * MAP_HEIGHT |->
        <<(i - 1) % MAP_WIDTH, (i - 1) \div MAP_WIDTH>>]

SpawnZone == [c \in Coords |-> "Empty"]
SpawnData == [c \in Coords |-> [population |-> 0, jobs |-> 0]]

\* CityStats::default()
DefaultStats == [population |-> 0, jobs |-> 0, money |-> 0]

\* ---------------------------------------------------------------- Zone::next
Zone_next_skip(self) ==
    CASE self = "Empty" -> "Road"
      [] self = "Road" -> "Residential"
      [] self = "Residential" -> "Commercial"
      [] self = "Commercial" -> "Industrial"
      [] self = "Industrial" -> "Road"

Zone_next(self) ==
    CASE self = "Empty" -> "Road"
      [] self = "Road" -> "Residential"
      [] self = "Residential" -> "Commercial"
      [] self = "Commercial" -> "Industrial"
      [] self = "Industrial" -> "Empty"

\* ------------------------------------------------------- handle_mouse_input
\* The zones after a fresh left click that resolves to cell (tx, ty).
click_zone_wrap(zn, tx, ty) ==
    [c \in DOMAIN zn |->
        IF c[1] = tx % MAP_WIDTH /\ c[2] = ty % MAP_HEIGHT
        THEN Zone_next(zn[c]) ELSE zn[c]]

click_zone_row(zn, tx, ty) ==
    IF tx < 0 \/ ty < 0 \/ tx >= MAP_WIDTH \/ ty >= MAP_HEIGHT
    THEN zn
    ELSE [c \in DOMAIN zn |-> IF c[2] = ty THEN Zone_next(zn[c]) ELSE zn[c]]

click_zone_spawn(zn, tx, ty) ==
    [c \in DOMAIN zn \cup {<<tx, ty>>} |->
        IF c \in DOMAIN zn
        THEN IF c[1] = tx /\ c[2] = ty THEN Zone_next(zn[c]) ELSE zn[c]
        ELSE "Road"]

click_zone(zn, tx, ty) ==
    IF tx < 0 \/ ty < 0 \/ tx >= MAP_WIDTH \/ ty >= MAP_HEIGHT
    THEN zn
    ELSE [c \in DOMAIN zn |->
            IF c[1] = tx /\ c[2] = ty THEN Zone_next(zn[c]) ELSE zn[c]]

\* ----------------------------------------------------------- simulation_step
Min(a, b) == IF a <= b THEN a ELSE b

neighbors == << <<1, 0>>, <<-1, 0>>, <<0, 1>>, <<0, -1>> >>

neighbors_diag ==
    << <<1, 0>>, <<-1, 0>>, <<0, 1>>, <<0, -1>>,
       <<1, 1>>, <<-1, -1>>, <<-1, 1>>, <<1, -1>> >>

\* zone_map.get(&(coord + n)) over the four offsets, stopping at a Road.
adjacent_road_diag(zone_map, coord) ==
    \E i \in DOMAIN neighbors_diag :
        LET p == <<coord[1] + neighbors_diag[i][1], coord[2] + neighbors_diag[i][2]>>
        IN  p \in DOMAIN zone_map /\ zone_map[p] = "Road"

adjacent_road(zone_map, coord) ==
    \E i \in DOMAIN neighbors :
        LET p == <<coord[1] + neighbors[i][1], coord[2] + neighbors[i][2]>>
        IN  p \in DOMAIN zone_map /\ zone_map[p] = "Road"

\* The match on the tile's zone: the new TileData of one tile.  The counters
\* are u32; every sum formed here is at most 101, far below 2^32.
update_tile_noclamp(z, d, adj) ==
    CASE z = "Residential" ->
            IF adj THEN [d EXCEPT !.population = d.population + 1] ELSE d
      [] z \in {"Commercial", "Industrial"} ->
            [d EXCEPT !.jobs = d.jobs + 1]
      [] z \in {"Road", "Empty"} -> [population |-> 0, jobs |-> 0]

update_tile_keep(z, d, adj) ==
    CASE z = "Residential" ->
            IF adj THEN [d EXCEPT !.population = Min(d.population + 1, 100)] ELSE d
      [] z \in {"Commercial", "Industrial"} ->
            [d EXCEPT !.jobs = Min(d.jobs + 1, 100)]
      [] z \in {"Road", "Empty"} -> [d EXCEPT !.population = 0]

update_tile_needs_road(z, d, adj) ==
    CASE z = "Residential" ->
            IF adj THEN [d EXCEPT !.population = Min(d.population + 1, 100)] ELSE d
      [] z \in {"Commercial", "Industrial"} ->
            IF adj THEN [d EXCEPT !.jobs = Min(d.jobs + 1, 100)] ELSE d
      [] z \in {"Road", "Empty"} -> [population |-> 0, jobs |-> 0]

update_tile_decay(z, d, adj) ==
    CASE z = "Residential" ->
            IF adj THEN [d EXCEPT !.population = Min(d.population + 1, 100)]
            ELSE [d EXCEPT !.population = IF @ > 0 THEN @ - 1 ELSE 0]
      [] z \in {"Commercial", "Industrial"} ->
            [d EXCEPT !.jobs = Min(d.jobs + 1, 100)]
      [] z \in {"Road", "Empty"} -> [population |-> 0, jobs |-> 0]

update_tile_exclusive(z, d, adj) ==
    CASE z = "Residential" ->
            [population |-> IF adj THEN Min(d.population + 1, 100) ELSE d.population,
             jobs |-> 0]
      [] z \in {"Commercial", "Industrial"} ->
            [population |-> 0, jobs |-> Min(d.jobs + 1, 100)]
      [] z \in {"Road", "Empty"} -> [population |-> 0, jobs |-> 0]

update_tile_short(z, d, adj) ==
    CASE z = "Residential" ->
            IF adj THEN [d EXCEPT !.population = Min(d.population + 1, 99)] ELSE d
      [] z \in {"Commercial", "Industrial"} ->
            [d EXCEPT !.jobs = Min(d.jobs + 1, 99)]
      [] z \in {"Road", "Empty"} -> [population |-> 0, jobs |-> 0]

update_tile(z, d, adj) ==
    CASE z = "Residential" ->
            IF adj THEN [d EXCEPT !.population = Min(d.population + 1, 100)] ELSE d
      [] z \in {"Commercial", "Industrial"} ->
            [d EXCEPT !.jobs = Min(d.jobs + 1, 100)]
      [] z \in {"Road", "Empty"} -> [population |-> 0, jobs |-> 0]

\* A neighbour test that also reads the neighbour's live TileData.
adjacent_road_live(zone_map, dat, coord) ==
    \E i \in DOMAIN neighbors :
        LET p == <<coord[1] + neighbors[i][1], coord[2] + neighbors[i][2]>>
        IN  /\ p \in DOMAIN zone_map
            /\ zone_map[p] = "Road"
            /\ dat[p].population = 0
            /\ dat[p].jobs = 0

RECURSIVE tile_loop_live(_, _, _, _, _)
tile_loop_live(order, zn, zone_map, dat, st) ==
    IF order = <<>> THEN [data |-> dat, stats |-> st]
    ELSE LET coord == Head(order)
             d == update_tile(zn[coord], dat[coord],
                              adjacent_road_live(zone_map, dat, coord))
         IN  tile_loop_live(Tail(order), zn, zone_map,
                            [dat EXCEPT ![coord] = d],
                            [st EXCEPT !.population = @ + d.population,
                                       !.jobs = @ + d.jobs])

\* for (coord, zone, mut data) in tiles.iter_mut() { ... stats += data }
\* over the tiles in `order`, reading neighbours from the snapshot zone_map.
RECURSIVE tile_loop(_, _, _, _, _)
tile_loop(order, zn, zone_map, dat, st) ==
    IF order = <<>> THEN [data |-> dat, stats |-> st]
    ELSE LET coord == Head(order)
             d == update_tile(zn[coord], dat[coord], adjacent_road(zone_map, coord))
         IN  tile_loop(Tail(order), zn, zone_map,
                       [dat EXCEPT ![coord] = d],
                       [st EXCEPT !.population = @ + d.population,
                                  !.jobs = @ + d.jobs])

\* stats.money += (stats.jobs as i64 / 5) - (stats.population as i64 / 10)
money_delta_swapped(st) == (st.population \div 5) - (st.jobs \div 10)

money_delta(st) == (st.jobs \div 5) - (st.population \div 10)

\* The body of simulation_step once the timer has just finished.
simulation_pass_incremental(zn, dat, st) ==
    LET zone_map == [c \in DOMAIN zn |-> zn[c]]
        r == tile_loop(SpawnOrder, zn, zone_map, dat, st)
    IN  [data |-> r.data,
         stats |-> [r.stats EXCEPT !.money = @ + money_delta(r.stats)]]

\* The pass with the tiles visited in `order` (the query's iteration order).
simulation_pass_live(order, zn, dat, st) ==
    LET reset == [st EXCEPT !.population = 0, !.jobs = 0]
        zone_map == [c \in DOMAIN zn |-> zn[c]]
        r == tile_loop_live(order, zn, zone_map, dat, reset)
    IN  [data |-> r.data,
         stats |-> [r.stats EXCEPT !.money = @ + money_delta(r.stats)]]

simulation_pass_in(order, zn, dat, st) ==
    LET reset == [st EXCEPT !.population = 0, !.jobs = 0]
        zone_map == [c \in DOMAIN zn |-> zn[c]]
        r == tile_loop(order, zn, zone_map, dat, reset)
    IN  [data |-> r.data,
         stats |-> [r.stats EXCEPT !.money = @ + money_delta(r.stats)]]

\* The tiles are one archetype spawned in sequence, so the query visits them
\* in spawn order.
simulation_pass(zn, dat, st) == simulation_pass_in(SpawnOrder, zn, dat, st)

\* ------------------------------------------------------------------ actions
\* handle_mouse_input when no fresh left press (or no cursor) is reported.
no_press ==
    /\ last' = "idle"
    /\ UNCHANGED <<zone, data, stats, pre, pressed, targets, clicks, ticks, window>>

NoPress == no_press /\ UNCHANGED frameVars

\* handle_mouse_input on a fresh left press resolving to cell (tx, ty).
handle_mouse_input(tx, ty) ==
    /\ clicks > 0
    /\ ticks \in window
    /\ clicks' = clicks - 1
    /\ zone' = click_zone(zone, tx, ty)
    /\ IF <<tx, ty>> \in Coords
       THEN /\ pressed' = [pressed EXCEPT ![<<tx, ty>>] = @ + 1]
            /\ last' = "click"
       ELSE /\ pressed' = pressed
            /\ last' = "miss"
    /\ UNCHANGED <<data, stats, pre, targets, ticks, window>>

Click ==
    /\ \E t \in targets : handle_mouse_input(t[1], t[2])
    /\ UNCHANGED frameVars

\* simulation_step in a frame where the timer did not just finish.
TimerPending ==
    /\ last' = "idle"
    /\ UNCHANGED <<zone, data, stats, pre, pressed, targets, clicks, ticks, window>>
    /\ UNCHANGED frameVars

\* simulation_step in a frame where the timer just finished.
simulation_step ==
    /\ ticks > 0
    /\ ticks' = ticks - 1
    /\ LET r == simulation_pass(zone, data, stats)
       IN  /\ data' = r.data
           /\ stats' = r.stats
    /\ pre' = [data |-> data, stats |-> stats]
    /\ last' = "tick"
    /\ changed' = TRUE
    /\ passSince' = TRUE
    /\ UNCHANGED <<zone, pressed, targets, clicks, window>>
    /\ UNCHANGED <<timer, text, todo, frames, frame, ui>>

\* ----------------------------------------------------------- specifications
\* setup_ui's text, the fresh timer and resource, and no frame run yet.
Startup ==
    /\ timer = 0
    /\ changed = TRUE
    /\ text = "Pop: 0  Jobs: 0  Money: 0"
    /\ todo = {}
    /\ frames = 0
    /\ frame = [n |-> 0, delta |-> 0, timer |-> 0, passes |-> 0,
                data |-> SpawnData, stats |-> DefaultStats]
    /\ ui = [ran |-> FALSE, obs |-> DefaultStats, prev |-> <<>>, passed |-> FALSE]
    /\ passSince = FALSE

\* Startup: spawn_map and init_resource::<CityStats>().
Init ==
    /\ zone = SpawnZone
    /\ data = SpawnData
    /\ stats = DefaultStats
    /\ last = "init"
    /\ pre = [data |-> SpawnData, stats |-> DefaultStats]
    /\ pressed = [c \in Coords |-> 0]
    /\ targets = Cells
    /\ clicks = MaxClicks
    /\ ticks = MaxTicks
    /\ window = 0 .. MaxTicks
    /\ Startup

Next == NoPress \/ Click \/ TimerPending \/ simulation_step

Spec == Init /\ [][Next]_vars

\* The zone a freshly spawned tile has after k clicks on it.
RECURSIVE ZoneAfter(_, _)
ZoneAfter(z, k) == IF k = 0 THEN z ELSE ZoneAfter(Zone_next(z), k - 1)

\* The maps a player builds by clicking at most two tiles up to four times each.
WarmBuilds ==
    {[c \in Coords |-> IF c = c1 THEN k1 ELSE IF c = c2 THEN k2 ELSE 0] :
        c1 \in Coords, c2 \in Coords, k1 \in 0 .. 4, k2 \in 0 .. 4}

\* A long run: a map built from the spawned grid before the timer first fires;
\* the player then lets the timer fire WarmLen times before working on the
\* built tiles again.
InitWarm ==
    \E b \in WarmBuilds :
        /\ zone = [c \in Coords |-> ZoneAfter("Empty", b[c])]
        /\ data = SpawnData
        /\ stats = DefaultStats
        /\ last = IF \A c \in Coords : b[c] = 0 THEN "init" ELSE "click"
        /\ pre = [data |-> SpawnData, stats |-> DefaultStats]
        /\ pressed = b
        /\ targets = {c \in Coords : b[c] > 0}
        /\ clicks = MaxClicks
        /\ ticks = WarmLen + MaxTicks
        /\ window = 0 .. MaxTicks
        /\ Startup

SpecWarm == InitWarm /\ [][Next]_vars

\* ------------------------------------------------------------ frame by frame
\* The engine's Update schedule: every frame runs handle_mouse_input,
\* simulation_step and update_stats_ui once each, in an order main() leaves
\* open (they are added as an unordered tuple).
Systems == {"mouse", "sim", "ui"}

\* Frame times explored: none, half an interval, two whole intervals.
Deltas == {0, 1, 2 * SIM_INTERVAL}

\* timer.0.tick(delta) of the engine's repeating Timer: the elapsed time
\* grows by delta; reaching the interval finishes the timer and wraps the
\* elapsed time, however many intervals the delta spanned.
timer_tick(elapsed, delta) ==
    LET e == elapsed + delta
    IN  IF e >= SIM_INTERVAL
        THEN [elapsed |-> e % SIM_INTERVAL, just_finished |-> TRUE,
              times_finished_this_tick |-> e \div SIM_INTERVAL]
        ELSE [elapsed |-> e, just_finished |-> FALSE,
              times_finished_this_tick |-> 0]

\* One pass for every interval the tick completed.
passes_due_catch_up(t) == t.times_finished_this_tick

\* if !timer.0.tick(time.delta()).just_finished() { return; }
\* How many recomputation passes one run of simulation_step makes.
passes_due(t) == IF t.just_finished THEN 1 ELSE 0

RECURSIVE run_passes(_, _, _)
run_passes(zn, s, n) ==
    IF n = 0 THEN s
    ELSE LET r == simulation_pass(zn, s.data, s.stats)
         IN  run_passes(zn, r, n - 1)

\* format!("Pop: {}  Jobs: {}  Money: {}", population, jobs, money)
stats_text(st) ==
    "Pop: " \o ToString(st.population) \o "  Jobs: " \o ToString(st.jobs)
        \o "  Money: " \o ToString(st.money)

\* A change flag that only sees the writes of the current frame.
ui_pushes_this_frame(flag, st, shown) == ~ui.ran \/ (flag /\ frame.passes > 0)

\* if !stats.is_changed() { return; }
\* is_changed() is the engine's change detection: true when the resource
\* was added or mutably dereferenced since this system last ran.
ui_pushes(flag, st, shown) == flag

\* The engine starts a frame: Time advances by the frame's delta.  The last
\* frame explored is a still one, so that every pass is followed by a frame.
BeginFrame ==
    /\ todo = {}
    /\ frames > 0
    /\ \E d \in (IF frames > 1 THEN Deltas ELSE {0}) :
        frame' = [n |-> frame.n + 1, delta |-> d, timer |-> timer, passes |-> 0,
                  data |-> data, stats |-> stats]
    /\ frames' = frames - 1
    /\ todo' = Systems
    /\ UNCHANGED coreVars
    /\ UNCHANGED <<timer, changed, text, ui, passSince>>

\* handle_mouse_input's run in this frame, without a fresh press.
MouseIdle ==
    /\ "mouse" \in todo
    /\ todo' = todo \ {"mouse"}
    /\ no_press
    /\ UNCHANGED <<timer, changed, text, frames, frame, ui, passSince>>

\* handle_mouse_input's run in this frame, with a fresh press.
MouseClick ==
    /\ "mouse" \in todo
    /\ todo' = todo \ {"mouse"}
    /\ \E t \in targets : handle_mouse_input(t[1], t[2])
    /\ UNCHANGED <<timer, changed, text, frames, frame, ui, passSince>>

\* simulation_step's run in this frame.
SimulationSystem ==
    /\ "sim" \in todo
    /\ todo' = todo \ {"sim"}
    /\ LET t == timer_tick(timer, frame.delta)
           n == passes_due(t)
           r == run_passes(zone, [data |-> data, stats |-> stats], n)
       IN  /\ timer' = t.elapsed
           /\ data' = r.data
           /\ stats' = r.stats
           /\ pre' = IF n > 0 THEN [data |-> data, stats |-> stats] ELSE pre
           /\ last' = IF n > 0 THEN "tick" ELSE "idle"
           /\ changed' = (changed \/ n > 0)
           /\ passSince' = (passSince \/ n > 0)
           /\ frame' = [frame EXCEPT !.passes = @ + n]
    /\ UNCHANGED <<zone, pressed, targets, clicks, ticks, window>>
    /\ UNCHANGED <<text, frames, ui>>

\* update_stats_ui's run in this frame.
update_stats_ui ==
    /\ "ui" \in todo
    /\ todo' = todo \ {"ui"}
    /\ IF ui_pushes(changed, stats, text)
       THEN /\ text' = stats_text(stats)
            /\ last' = "push"
       ELSE /\ text' = text
            /\ last' = "nopush"
    /\ changed' = FALSE
    /\ ui' = [ran |-> TRUE, obs |-> stats,
              prev |-> IF ui.ran THEN <<ui.obs>> ELSE <<>>,
              passed |-> passSince]
    /\ passSince' = FALSE
    /\ UNCHANGED <<zone, data, stats, pre, pressed, targets, clicks, ticks, window>>
    /\ UNCHANGED <<timer, frames, frame>>

\* The cells the clicks of the frame-by-frame runs resolve to: two adjacent
\* tiles and one cell outside the grid.
FrameTargets == {<<0, 0>>, <<1, 0>>, <<-1, 0>>}

InitFrame ==
    /\ zone = SpawnZone
    /\ data = SpawnData
    /\ stats = DefaultStats
    /\ last = "init"
    /\ pre = [data |-> SpawnData, stats |-> DefaultStats]
    /\ pressed = [c \in Coords |-> 0]
    /\ targets = FrameTargets
    /\ clicks = MaxClicks
    /\ ticks = 0
    /\ window = {0}
    /\ timer = 0
    /\ changed = TRUE
    /\ text = "Pop: 0  Jobs: 0  Money: 0"
    /\ todo = {}
    /\ frames = MaxFrames
    /\ frame = [n |-> 0, delta |-> 0, timer |-> 0, passes |-> 0,
                data |-> SpawnData, stats |-> DefaultStats]
    /\ ui = [ran |-> FALSE, obs |-> DefaultStats, prev |-> <<>>, passed |-> FALSE]
    /\ passSince = FALSE

NextFrame ==
    BeginFrame \/ MouseIdle \/ MouseClick \/ SimulationSystem \/ update_stats_ui

\* The engine keeps running frames, and every system of a frame runs.
SpecFrame == InitFrame /\ [][NextFrame]_vars /\ WF_vars(NextFrame)

\* ------------------------------------------------------------- a long game
\* The player has built a Residential or Commercial tile at (0, 0) and an
\* Industrial tile or a Road next to it at (1, 0), clicks (1, 0) a few more times
\* while the timer first fires, and then leaves the city alone while the
\* timer keeps firing.
LiveTiles == {<<0, 0>>, <<1, 0>>}

LiveBuilds ==
    {[c \in Coords |-> IF c = <<0, 0>> THEN i ELSE IF c = <<1, 0>> THEN j ELSE 0] :
        i \in {1, 2}, j \in {3, 4}}

InitLive ==
    /\ \E b \in LiveBuilds :
        /\ zone = [c \in Coords |-> ZoneAfter("Empty", b[c])]
        /\ pressed = b
        /\ last = IF \E c \in Coords : b[c] > 0 THEN "click" ELSE "init"
    /\ data = SpawnData
    /\ stats = DefaultStats
    /\ pre = [data |-> SpawnData, stats |-> DefaultStats]
    /\ targets = {<<1, 0>>}
    /\ clicks = MaxClicks
    /\ ticks = WarmLen + MaxTicks
    /\ window = WarmLen .. WarmLen + MaxTicks
    /\ Startup

\* The repeating timer keeps finishing intervals for as long as the game runs.
SpecLive == InitLive /\ [][Next]_vars /\ WF_vars(simulation_step)

\* ------------------------------------------------------ vocabulary of claims
InGrid(x, y) == 0 <= x /\ x < MAP_WIDTH /\ 0 <= y /\ y < MAP_HEIGHT

RoadAt(x, y) == InGrid(x, y) /\ zone[<<x, y>>] = "Road"

\* One of (x+1,y), (x-1,y), (x,y+1), (x,y-1) is inside the grid and is a Road.
HasRoadNeighbour(c) ==
    \/ RoadAt(c[1] + 1, c[2])
    \/ RoadAt(c[1] - 1, c[2])
    \/ RoadAt(c[1], c[2] + 1)
    \/ RoadAt(c[1], c[2] - 1)

RECURSIVE SetSum(_, _)
SetSum(f, S) ==
    IF S = {} THEN 0
    ELSE LET x == CHOOSE x \in S : TRUE IN f[x] + SetSum(f, S \ {x})

SumPopulation == SetSum([c \in Coords |-> data[c].population], Coords)
SumJobs == SetSum([c \in Coords |-> data[c].jobs], Coords)

\* In a long run: the timer firings so far, while the player has not clicked
\* since the map was built.
Untouched == clicks = MaxClicks
FiringsSoFar == WarmLen + MaxTicks - ticks

\* -------------------------------------------------------------------- claims
\* C1: in every reachable state every tile's population and jobs are within
\* 0..100 inclusive.
C1_CountersInRange ==
    \A c \in Coords :
        /\ data[c].population \in 0 .. 100
        /\ data[c].jobs \in 0 .. 100

\* A pass has run on a Residential tile next to a Road that already held 100.
C1_Witness ==
    /\ last = "tick"
    /\ \E c \in Coords :
        /\ zone[c] = "Residential" /\ HasRoadNeighbour(c)
        /\ pre.data[c].population = 100
        /\ data[c].population = 100

\* C2: a tile that is Road or Empty when a pass runs has population 0 and
\* jobs 0 right after the pass, whatever it held before.
C2_RoadEmptyReset ==
    last = "tick" =>
        \A c \in Coords :
            zone[c] \in {"Road", "Empty"} =>
                data[c].population = 0 /\ data[c].jobs = 0

\* A pass has reset a Road or Empty tile that held population before it.
C2_Witness ==
    /\ last = "tick"
    /\ \E c \in Coords :
        /\ zone[c] \in {"Road", "Empty"}
        /\ pre.data[c].population > 0
        /\ data[c].population = 0

\* C3: a pass sets the jobs of a Commercial or Industrial tile to
\* min(jobs + 1, 100) whatever its neighbours are; so n consecutive passes
\* over such a tile starting from jobs = 0 give jobs = min(n, 100).
C3_JobsIncrement ==
    /\ last = "tick" =>
        \A c \in Coords :
            zone[c] \in {"Commercial", "Industrial"} =>
                data[c].jobs = Min(pre.data[c].jobs + 1, 100)
    /\ Untouched =>
        \A c \in Coords :
            zone[c] \in {"Commercial", "Industrial"} =>
                data[c].jobs = Min(FiringsSoFar, 100)

\* The third pass over an Industrial tile with no Road beside it: jobs 2 -> 3.
C3_Witness ==
    /\ last = "tick"
    /\ Untouched
    /\ FiringsSoFar = 3
    /\ \E c \in Coords :
        /\ zone[c] = "Industrial" /\ ~HasRoadNeighbour(c)
        /\ pre.data[c].jobs = 2
        /\ data[c].jobs = 3

\* C4: a pass leaves unchanged the population of a Residential tile that has
\* no Road among its four in-grid neighbours, also when it is non-zero.
C4_NoRoadNoChange ==
    last = "tick" =>
        \A c \in Coords :
            (zone[c] = "Residential" /\ ~HasRoadNeighbour(c)) =>
                data[c].population = pre.data[c].population

\* A pass has run over a Residential tile that holds population and has lost
\* its Road.
C4_Witness ==
    /\ last = "tick"
    /\ \E c \in Coords :
        /\ zone[c] = "Residential" /\ ~HasRoadNeighbour(c)
        /\ pre.data[c].population > 0
        /\ data[c].population = pre.data[c].population

\* C5 as stated: a pass sets the population of a Residential tile to
\* min(population + 1, 100) if and only if one of its four axis-aligned
\* in-grid neighbours is a Road.
C5_Original ==
    last = "tick" =>
        \A c \in Coords :
            zone[c] = "Residential" =>
                (data[c].population = Min(pre.data[c].population + 1, 100)
                    <=> HasRoadNeighbour(c))

\* C5 as amended: a pass sets the population of a Residential tile to
\* min(population + 1, 100) if one of its four axis-aligned in-grid neighbours
\* is a Road and leaves it unchanged otherwise, so below 100 the increment
\* happens if and only if such a Road exists; diagonal tiles, the tile itself
\* and out-of-grid coordinates never count.
C5_RoadIncrement ==
    last = "tick" =>
        \A c \in Coords :
            zone[c] = "Residential" =>
                /\ HasRoadNeighbour(c) =>
                    data[c].population = Min(pre.data[c].population + 1, 100)
                /\ ~HasRoadNeighbour(c) =>
                    data[c].population = pre.data[c].population
                /\ pre.data[c].population < 100 =>
                    (data[c].population = pre.data[c].population + 1
                        <=> HasRoadNeighbour(c))

\* A pass has incremented the corner tile (0, 0), two of whose neighbour
\* coordinates lie outside the grid.
C5_Witness ==
    /\ last = "tick"
    /\ zone[<<0, 0>>] = "Residential"
    /\ HasRoadNeighbour(<<0, 0>>)
    /\ data[<<0, 0>>].population = pre.data[<<0, 0>>].population + 1

\* C6: next maps Empty -> Road -> Residential -> Commercial -> Industrial ->
\* Empty; five applications return every zone to itself and one to four do
\* not, so k clicks on a tile leave its zone unchanged exactly when 5 divides k.
C6_ZoneCycle ==
    /\ Zone_next("Empty") = "Road"
    /\ Zone_next("Road") = "Residential"
    /\ Zone_next("Residential") = "Commercial"
    /\ Zone_next("Commercial") = "Industrial"
    /\ Zone_next("Industrial") = "Empty"
    /\ \A z \in Zone :
        /\ ZoneAfter(z, 5) = z
        /\ \A k \in 1 .. 4 : ZoneAfter(z, k) # z
    /\ \A c \in Coords :
        /\ zone[c] = ZoneAfter("Empty", pressed[c])
        /\ zone[c] = "Empty" <=> pressed[c] % 5 = 0

\* A tile has been clicked exactly five times and is Empty again.
C6_Witness == \E c \in Coords : pressed[c] = 5 /\ zone[c] = "Empty"

\* C7: a click that resolves outside the grid changes no tile's zone,
\* population or jobs and no city statistic.
C7_OutOfBoundsClick ==
    [][\A tx \in -1 .. MAP_WIDTH : \A ty \in -1 .. MAP_HEIGHT :
        ((tx < 0 \/ ty < 0 \/ tx >= MAP_WIDTH \/ ty >= MAP_HEIGHT)
            /\ handle_mouse_input(tx, ty))
        => UNCHANGED <<zone, data, stats>>]_vars

\* A click has missed a grid on which tiles were zoned already.
C7_Witness ==
    /\ last = "miss"
    /\ \E c \in Coords : zone[c] # "Empty"

\* C8: a click that resolves to an in-grid cell replaces the zone of that one
\* tile by its next zone and leaves every other zone, every tile's population
\* and jobs and the city statistics unchanged.
C8_ClickFrame ==
    [][\A t \in Coords :
        handle_mouse_input(t[1], t[2]) =>
            /\ zone'[t] = Zone_next(zone[t])
            /\ \A c \in Coords \ {t} : zone'[c] = zone[c]
            /\ data' = data
            /\ stats' = stats]_vars

\* A tile that holds population has been clicked while the statistics are
\* non-zero.
C8_Witness ==
    /\ last = "click"
    /\ stats.population > 0
    /\ \E c \in Coords :
        /\ data[c].population > 0
        /\ zone[c] = "Commercial"
        /\ pressed[c] = 3

\* C9: in every reachable state stats.population is the sum of all tiles'
\* population and stats.jobs the sum of all tiles' jobs (each pass overwrites
\* both with the post-pass sums).
C9_StatsAreSums ==
    /\ stats.population = SumPopulation
    /\ stats.jobs = SumJobs

\* A second pass has run with non-zero totals that a first pass had written.
C9_Witness ==
    /\ last = "tick"
    /\ pre.stats.population > 0
    /\ stats.population > pre.stats.population

\* C10: a pass changes money by (total jobs div 5) - (total population div 10)
\* of the post-pass totals, and nothing else changes money.
C10_MoneyDelta ==
    stats.money =
        pre.stats.money + (SumJobs \div 5) - (SumPopulation \div 10)

\* A pass has changed money where a division truncates.
C10_Witness ==
    /\ last = "tick"
    /\ stats.money # pre.stats.money
    /\ (SumJobs % 5 # 0 \/ SumPopulation % 10 # 0)

\* Orders in which a pass may visit the tiles: spawn order, its reverse, and
\* every order that visits one of the tiles the player has zoned first.
Reverse(sq) == [i \in 1 .. Len(sq) |-> sq[Len(sq) + 1 - i]]
Without(sq, c) == SelectSeq(sq, LAMBDA x : x # c)
Orders ==
    {SpawnOrder, Reverse(SpawnOrder)}
        \cup {<<c>> \o Without(SpawnOrder, c) : c \in {d \in Coords : pressed[d] > 0}}

\* C12: within a pass every neighbour read sees the zone the neighbour had
\* when the pass began, and the data and statistics the pass produces are the
\* same for every order in which the tiles are visited.
C12_OrderIndependent ==
    last = "tick" =>
        /\ \A c \in Coords :
            data[c] = update_tile(zone[c], pre.data[c], HasRoadNeighbour(c))
        /\ \A o \in Orders :
            simulation_pass_in(o, zone, pre.data, pre.stats)
                = [data |-> data, stats |-> stats]

\* A pass has run over a Residential tile whose Road neighbour still carried
\* jobs from an earlier zone, so the pass rewrote both tiles.
C12_Witness ==
    /\ last = "tick"
    /\ \E c \in Coords : \E i \in DOMAIN neighbors :
        LET p == <<c[1] + neighbors[i][1], c[2] + neighbors[i][2]>>
        IN  /\ p \in Coords
            /\ zone[c] = "Residential" /\ zone[p] = "Road"
            /\ pre.data[p].jobs > 0 /\ data[p].jobs = 0
            /\ data[c].population = pre.data[c].population + 1

\* C14: the grid is exactly MAP_WIDTH x MAP_HEIGHT tiles, one per coordinate
\* of the grid, in every state; no click and no pass adds, removes or moves a
\* tile, and a pass changes no zone.
C14_GridFixed ==
    /\ [](/\ Len(SpawnOrder) = MAP_WIDTH * MAP_HEIGHT
          /\ \A c \in Coords : Cardinality({i \in DOMAIN SpawnOrder : SpawnOrder[i] = c}) = 1
          /\ DOMAIN zone = Coords
          /\ DOMAIN data = Coords
          /\ Cardinality(DOMAIN zone) = MAP_WIDTH * MAP_HEIGHT)
    /\ [][last' = "tick" => zone' = zone]_vars

\* A pass has run over a grid zoned by clicks, after a click outside the grid.
C14_Witness ==
    /\ last = "tick"
    /\ clicks = 0
    /\ \E c \in Coords : zone[c] # "Empty"
    /\ Cardinality({c \in Coords : pressed[c] > 0}) < MaxClicks

\* C15: a pass never changes the jobs of a Residential tile nor the population
\* of a Commercial or Industrial tile; counters carried into those zones by
\* clicks persist through the pass and stay counted in the city totals.
C15_CarriedCounters ==
    last = "tick" =>
        /\ \A c \in Coords :
            /\ zone[c] = "Residential" => data[c].jobs = pre.data[c].jobs
            /\ zone[c] \in {"Commercial", "Industrial"} =>
                data[c].population = pre.data[c].population
        /\ \A c \in Coords :
            /\ stats.population >= data[c].population
            /\ stats.jobs >= data[c].jobs

\* A pass has run over a Residential tile that carries jobs from its time as
\* Industrial (clicked Industrial -> Empty -> Road -> Residential).
C15_Witness ==
    /\ last = "tick"
    /\ \E c \in Coords :
        /\ zone[c] = "Residential"
        /\ pre.data[c].jobs > 0
        /\ data[c].jobs = pre.data[c].jobs
        /\ stats.jobs >= data[c].jobs

\* C17: no unsigned sum of a pass overflows: the counters incremented hold at
\* most 100, the totals never exceed 100 * MAP_WIDTH * MAP_HEIGHT, which is
\* below 2^32, and the money delta of a pass lies between
\* -(10 * MAP_WIDTH * MAP_HEIGHT) and 20 * MAP_WIDTH * MAP_HEIGHT.
C17_NoOverflow ==
    /\ \A c \in Coords :
        /\ data[c].population + 1 <= 101
        /\ data[c].jobs + 1 <= 101
    /\ stats.population <= 100 * MAP_WIDTH * MAP_HEIGHT
    /\ stats.jobs <= 100 * MAP_WIDTH * MAP_HEIGHT
    /\ (100 * MAP_WIDTH * MAP_HEIGHT) \div 65536 < 65536   \* below 2^32
    /\ stats.money - pre.stats.money >= -(10 * MAP_WIDTH * MAP_HEIGHT)
    /\ stats.money - pre.stats.money <= 20 * MAP_WIDTH * MAP_HEIGHT

\* A pass has added two saturated tiles into the job total.
C17_Witness ==
    /\ last = "tick"
    /\ stats.jobs = 200
    /\ stats.money - pre.stats.money = 40

\* ---------------------------------------------------------------- C11
\* C11: update_stats_ui pushes the text only when population, jobs or money
\* differs in value from what it was at update_stats_ui's previous
\* observation; a pass that leaves all three values as they were causes no
\* push.
C11_Original ==
    (last = "push" /\ ui.prev # <<>>) => ui.obs # ui.prev[1]

\* ---------------------------------------------------------------- C13
\* C13: in a frame whose timer tick does not complete an interval,
\* simulation_step changes no tile counter and no statistic; in a frame
\* whose tick does, the recomputation pass runs exactly once, also when the
\* frame's elapsed time spans two or more intervals: every counter grows by
\* at most one and the money by one pass's net income.
TimerFinishes == frame.timer + frame.delta >= SIM_INTERVAL

C13_OnePassPerFrame ==
    /\ ("sim" \in todo \/ ~TimerFinishes) =>
          /\ data = frame.data
          /\ stats = frame.stats
          /\ frame.passes = 0
    /\ ("sim" \notin todo /\ TimerFinishes) =>
          /\ frame.passes = 1
          /\ \A c \in Coords :
                /\ data[c].population \in
                       {0, frame.data[c].population, frame.data[c].population + 1}
                /\ data[c].jobs \in {0, frame.data[c].jobs, frame.data[c].jobs + 1}
          /\ stats.money = frame.stats.money
                               + (SumJobs \div 5) - (SumPopulation \div 10)

\* A frame as long as two intervals has run simulation_step, and a
\* Commercial tile gained one job.
C13_Witness ==
    /\ frame.delta = 2 * SIM_INTERVAL
    /\ "sim" \notin todo
    /\ last = "tick"
    /\ \E c \in Coords :
          /\ zone[c] = "Commercial"
          /\ data[c].jobs = frame.data[c].jobs + 1

\* ---------------------------------------------------------------- C18
\* C18: no statistics update is missed by the text: whichever order the three
\* systems run in within a frame, after every run of update_stats_ui the text
\* is "Pop: {population}  Jobs: {jobs}  Money: {money}" of the current
\* statistics, and once passes stop the text equals the current statistics
\* for good.
TextShowsStats ==
    text = "Pop: " \o ToString(stats.population)
               \o "  Jobs: " \o ToString(stats.jobs)
               \o "  Money: " \o ToString(stats.money)

C18_NoUpdateMissed ==
    /\ [](last \in {"push", "nopush"} => TextShowsStats)
    /\ <>[]TextShowsStats

\* update_stats_ui ran before simulation_step in its frame and pushed the
\* statistics written by the pass of the frame before.
C18_Witness ==
    /\ last = "push"
    /\ ui.passed
    /\ "sim" \in todo
    /\ frame.n > 1
    /\ stats.jobs > 0
    /\ TextShowsStats

\* ---------------------------------------------------------------- C16
\* C16: while the timer keeps firing, a tile that from some point on stays
\* Residential with a Road among its four neighbours eventually has
\* population 100 and keeps it while it remains Residential; a tile that
\* stays Commercial or Industrial eventually has jobs 100 and keeps it.
StaysResidentialByRoad(c) == zone[c] = "Residential" /\ HasRoadNeighbour(c)
StaysWorkplace(c) == zone[c] \in {"Commercial", "Industrial"}

C16_GrowsToCap ==
    /\ \A c \in LiveTiles :
          /\ <>[]StaysResidentialByRoad(c) => <>[](data[c].population = 100)
          /\ <>[]StaysWorkplace(c) => <>[](data[c].jobs = 100)
    /\ [][\A c \in Coords :
            /\ (zone[c] = "Residential" /\ zone'[c] = "Residential"
                    /\ data[c].population = 100) => data'[c].population = 100
            /\ (StaysWorkplace(c) /\ StaysWorkplace(c)'
                    /\ data[c].jobs = 100) => data'[c].jobs = 100]_vars

\* A Residential tile by a Road and a tile made a workplace by a click have
\* both grown to the cap, and the timer fired once more.
C16_Witness ==
    /\ last = "tick"
    /\ clicks < MaxClicks
    /\ \E c \in Coords :
          /\ StaysResidentialByRoad(c)
          /\ pre.data[c].population = 100
          /\ data[c].population = 100

============================================================================
